---- MODULE Spec2Model ----
(***************************************************************************)
(* River-Crossing-Backend: the Missionaries-and-Cannibals A* solver        *)
(* (missionary_cannibal_a_star.py) and the HTTP dispatch in front of it    *)
(* (app.py), as a state machine.                                           *)
(*                                                                         *)
(* One behaviour is one call: either a direct call of                      *)
(* solve_missionaries_cannibals (as the module's __main__ block makes) or  *)
(* one HTTP request handled by app.py.  The A* main loop advances one      *)
(* iteration (one heappop and what follows it) per step.                   *)
(***************************************************************************)
EXTENDS Integers, Sequences, FiniteSets, TLC

VARIABLES
    pc,             \* "http" | "solve" | "search" | "done"
    call,           \* the keyword arguments of a direct call (NoCall on a request)
    request,        \* the JSON body of the HTTP request (NoRequest on a direct call)
    invoked,        \* the solver module the HTTP handler dispatched to ("none" if none)
    args,           \* parameters as bound by solve_missionaries_cannibals
    start_state,    \* solve_missionaries_cannibals: start_state
    goal_state,     \* solve_missionaries_cannibals: goal_state
    open_heap,      \* astar_search: open_heap, entries <<f, g, state>> in push order
    g_cost,         \* astar_search: g_cost
    parent,         \* astar_search: parent
    visited,        \* astar_search: visited
    num_generated,  \* astar_search: num_generated
    path,           \* astar_search: the returned path, None or PyList(states)
    response,       \* what solve_missionaries_cannibals returns: None until then
    outcome         \* "pending" | "returned" | "TypeError" | "external" | "no_response"

vars == <<pc, call, request, invoked, args, start_state, goal_state, open_heap, g_cost,
          parent, visited, num_generated, path, response, outcome>>

----------------------------------------------------------------------------
(* Bounds of the explored inputs. *)

\* direct calls with the default distribution: totals 0..MaxTotal
MaxTotal == 7
\* direct calls with the default distribution: boat capacity 0..MaxCap
MaxCap == 6
\* direct calls with a caller-supplied distribution: totals, counts, capacity
MaxInit == 2
\* HTTP requests: every count of the request body
MaxReq == 1

----------------------------------------------------------------------------
(* Python values.  A parameter that may be None, an int or a str is tagged. *)

None == <<"None">>

PyInt(n) == <<"int", n>>

PyStr(s) == <<"str", s>>

PyList(items) == <<"list", items>>

PyDict(items) == <<"dict", items>>

BoatSides == {"left", "right"}

\* str(i) of a non-negative int, as enumerate()'s index is rendered
Digit(d) ==
    CASE d = 0 -> "0" [] d = 1 -> "1" [] d = 2 -> "2" [] d = 3 -> "3"
      [] d = 4 -> "4" [] d = 5 -> "5" [] d = 6 -> "6" [] d = 7 -> "7"
      [] d = 8 -> "8" [] d = 9 -> "9"

\* str(i) that renders the last digit only
str_last_digit(i) == Digit(i % 10)

RECURSIVE str(_)
str(i) == IF i < 10 THEN Digit(i) ELSE str(i \div 10) \o Digit(i % 10)

----------------------------------------------------------------------------
(* missionary_cannibal_a_star.py: the pure functions *)

\* is_valid_state without the missionary constraint on the right bank
is_valid_state_left_only(M_left, C_left, M_right, C_right, M_total, C_total) ==
    IF M_left < 0 \/ C_left < 0 \/ M_right < 0 \/ C_right < 0 THEN FALSE
    ELSE IF M_left > M_total \/ C_left > C_total
            \/ M_right > M_total \/ C_right > C_total THEN FALSE
    ELSE IF M_left > 0 /\ C_left > M_left THEN FALSE
    ELSE TRUE

\* is_valid_state without the check for negative counts
is_valid_state_no_negative(M_left, C_left, M_right, C_right, M_total, C_total) ==
    IF M_left > M_total \/ C_left > C_total
            \/ M_right > M_total \/ C_right > C_total THEN FALSE
    ELSE IF M_left > 0 /\ C_left > M_left THEN FALSE
    ELSE IF M_right > 0 /\ C_right > M_right THEN FALSE
    ELSE TRUE

is_valid_state(M_left, C_left, M_right, C_right, M_total, C_total) ==
    IF M_left < 0 \/ C_left < 0 \/ M_right < 0 \/ C_right < 0 THEN FALSE
    ELSE IF M_left > M_total \/ C_left > C_total
            \/ M_right > M_total \/ C_right > C_total THEN FALSE
    ELSE IF M_left > 0 /\ C_left > M_left THEN FALSE
    ELSE IF M_right > 0 /\ C_right > M_right THEN FALSE
    ELSE TRUE

\* get_possible_moves with i + j < boat_capacity
get_possible_moves_strict(boat_capacity) ==
    LET n == IF boat_capacity + 1 > 0 THEN boat_capacity + 1 ELSE 0
        all == [k \in 1..(n * n) |-> <<(k - 1) \div n, (k - 1) % n>>]
    IN  SelectSeq(all, LAMBDA mv : mv[1] + mv[2] < boat_capacity /\ mv[1] + mv[2] > 0)

\* get_possible_moves with range(boat_capacity + 2) and i + j <= boat_capacity + 1
get_possible_moves_plus_one(boat_capacity) ==
    LET n == IF boat_capacity + 2 > 0 THEN boat_capacity + 2 ELSE 0
        all == [k \in 1..(n * n) |-> <<(k - 1) \div n, (k - 1) % n>>]
    IN  SelectSeq(all, LAMBDA mv : mv[1] + mv[2] <= boat_capacity + 1 /\ mv[1] + mv[2] > 0)

\* the (i, j) pairs in the order of the two nested range() loops
get_possible_moves(boat_capacity) ==
    LET n == IF boat_capacity + 1 > 0 THEN boat_capacity + 1 ELSE 0
        all == [k \in 1..(n * n) |-> <<(k - 1) \div n, (k - 1) % n>>]
    IN  SelectSeq(all, LAMBDA mv : mv[1] + mv[2] <= boat_capacity /\ mv[1] + mv[2] > 0)

\* the move applied with the boat left where it was
ApplyMove_same_side(state, mv) ==
    IF state[5] = "left"
    THEN <<state[1] - mv[1], state[2] - mv[2], state[3] + mv[1], state[4] + mv[2], "left">>
    ELSE <<state[1] + mv[1], state[2] + mv[2], state[3] - mv[1], state[4] - mv[2], "right">>

ApplyMove(state, mv) ==
    IF state[5] = "left"
    THEN <<state[1] - mv[1], state[2] - mv[2], state[3] + mv[1], state[4] + mv[2], "right">>
    ELSE <<state[1] + mv[1], state[2] + mv[2], state[3] - mv[1], state[4] - mv[2], "left">>

get_next_states(state, M_total, C_total, boat_capacity) ==
    LET possible_moves == get_possible_moves(boat_capacity)
        all == [k \in 1..Len(possible_moves) |-> ApplyMove(state, possible_moves[k])]
    IN  SelectSeq(all, LAMBDA s : is_valid_state(s[1], s[2], s[3], s[4], M_total, C_total))

\* the heuristic without the halving: one trip per person
heuristic_per_person(state, M_total, C_total) ==
    LET people_left == state[1] + state[2]
    IN  people_left

\* math.ceil(people_left / 2.0)
heuristic(state, M_total, C_total) ==
    LET people_left == state[1] + state[2]
    IN  -((-people_left) \div 2)

----------------------------------------------------------------------------
(* heapq over (f, g, state) tuples: Python compares the tuples               *)
(* lexicographically, the state tuple included ('left' < 'right').          *)

StrLess(a, b) == a = "left" /\ b = "right"

StateLess(a, b) ==
    \/ a[1] < b[1]
    \/ a[1] = b[1] /\ a[2] < b[2]
    \/ a[1] = b[1] /\ a[2] = b[2] /\ a[3] < b[3]
    \/ a[1] = b[1] /\ a[2] = b[2] /\ a[3] = b[3] /\ a[4] < b[4]
    \/ a[1] = b[1] /\ a[2] = b[2] /\ a[3] = b[3] /\ a[4] = b[4] /\ StrLess(a[5], b[5])

\* entries ordered by f alone: equal f leaves the earlier push first
EntryLess_f_only(a, b) == a[1] < b[1]

\* the heap order reversed: the largest tuple is popped first
EntryLess_reversed(a, b) ==
    \/ b[1] < a[1]
    \/ a[1] = b[1] /\ b[2] < a[2]
    \/ a[1] = b[1] /\ a[2] = b[2] /\ StateLess(b[3], a[3])

EntryLess(a, b) ==
    \/ a[1] < b[1]
    \/ a[1] = b[1] /\ a[2] < b[2]
    \/ a[1] = b[1] /\ a[2] = b[2] /\ StateLess(a[3], b[3])

\* heappush: the entry joins the heap (kept here in push order)
heappush(heap, entry) == Append(heap, entry)

\* the position of the entry heappop returns: the smallest tuple
HeapTop(heap) ==
    CHOOSE i \in 1..Len(heap) : \A j \in 1..Len(heap) : ~EntryLess(heap[j], heap[i])

\* heappop that reads the smallest entry and leaves it on the heap
HeapRest_keep(heap) == heap

\* heappop: the heap without the popped entry
HeapRest(heap) ==
    LET i == HeapTop(heap)
    IN  SubSeq(heap, 1, i - 1) \o SubSeq(heap, i + 1, Len(heap))

----------------------------------------------------------------------------
(* astar_search: the body of one iteration *)

\* the dict d with d[k] = v set
DictSet(d, k, v) == [x \in DOMAIN d \cup {k} |-> IF x = k THEN v ELSE d[x]]

\* the test without the cost comparison: every neighbour is admitted
Improves_always(costs, nxt, tentative_g) == TRUE

\* the test that admits a neighbour: new, or reached more cheaply
Improves(costs, nxt, tentative_g) ==
    nxt \notin DOMAIN costs \/ tentative_g < costs[nxt]

\* the for-loop without num_generated += 1
RECURSIVE Explore_uncounted(_, _, _, _, _)
Explore_uncounted(acc, succs, i, current, g) ==
    IF i > Len(succs) THEN acc
    ELSE LET nxt == succs[i]
             tentative_g == g + 1
         IN  IF Improves(acc.g_cost, nxt, tentative_g)
             THEN Explore_uncounted(
                    [g_cost |-> DictSet(acc.g_cost, nxt, tentative_g),
                     parent |-> DictSet(acc.parent, nxt, current),
                     open_heap |-> heappush(acc.open_heap,
                         <<tentative_g + heuristic(nxt, args.M_total, args.C_total),
                           tentative_g, nxt>>),
                     num_generated |-> acc.num_generated],
                    succs, i + 1, current, g)
             ELSE Explore_uncounted(acc, succs, i + 1, current, g)

\* the for-loop left after the first neighbour it admits
RECURSIVE Explore_break(_, _, _, _, _)
Explore_break(acc, succs, i, current, g) ==
    IF i > Len(succs) THEN acc
    ELSE LET nxt == succs[i]
             tentative_g == g + 1
         IN  IF Improves(acc.g_cost, nxt, tentative_g)
             THEN [g_cost |-> DictSet(acc.g_cost, nxt, tentative_g),
                   parent |-> DictSet(acc.parent, nxt, current),
                   open_heap |-> heappush(acc.open_heap,
                       <<tentative_g + heuristic(nxt, args.M_total, args.C_total),
                         tentative_g, nxt>>),
                   num_generated |-> acc.num_generated + 1]
             ELSE Explore_break(acc, succs, i + 1, current, g)

\* the for-loop over get_next_states(current), from its i-th neighbour on;
\* acc carries g_cost, parent, open_heap and num_generated
RECURSIVE Explore(_, _, _, _, _)
Explore(acc, succs, i, current, g) ==
    IF i > Len(succs) THEN acc
    ELSE LET nxt == succs[i]
             tentative_g == g + 1
         IN  IF Improves(acc.g_cost, nxt, tentative_g)
             THEN Explore(
                    [g_cost |-> DictSet(acc.g_cost, nxt, tentative_g),
                     parent |-> DictSet(acc.parent, nxt, current),
                     open_heap |-> heappush(acc.open_heap,
                         <<tentative_g + heuristic(nxt, args.M_total, args.C_total),
                           tentative_g, nxt>>),
                     num_generated |-> acc.num_generated + 1],
                    succs, i + 1, current, g)
             ELSE Explore(acc, succs, i + 1, current, g)

\* the reconstruction without path.reverse(): goal first, start last
RECURSIVE PathTo_unreversed(_, _, _)
PathTo_unreversed(par, current, fuel) ==
    IF current = None \/ fuel = 0 THEN <<>>
    ELSE <<current>> \o PathTo_unreversed(par, par[current], fuel - 1)

\* the path reconstruction loop: current, parent[current], ... reversed.
\* fuel bounds the walk by the number of recorded parents.
RECURSIVE PathTo(_, _, _)
PathTo(par, current, fuel) ==
    IF current = None \/ fuel = 0 THEN <<>>
    ELSE Append(PathTo(par, par[current], fuel - 1), current)

\* output[key] = value on the (key, value) items of a dict, kept in insertion
\* order: a key already present keeps its place and takes the new value
ItemSet(items, key, value) ==
    IF \E k \in 1..Len(items) : items[k][1] = key
    THEN [k \in 1..Len(items) |-> IF items[k][1] = key THEN <<key, value>> ELSE items[k]]
    ELSE Append(items, <<key, value>>)

\* the loop over enumerate(solution_path), from the i-th state on
RECURSIVE FormatFrom(_, _, _)
FormatFrom(output, solution_path, i) ==
    IF i > Len(solution_path) THEN output
    ELSE FormatFrom(
            ItemSet(output, str(i - 1),
                [M_left |-> solution_path[i][1], C_left |-> solution_path[i][2],
                 M_right |-> solution_path[i][3], C_right |-> solution_path[i][4],
                 boat_position |-> solution_path[i][5]]),
            solution_path, i + 1)

\* the output dictionary, as its (key, value) items in insertion order
FormatPath(solution_path) == FormatFrom(<<>>, solution_path, 1)

----------------------------------------------------------------------------
(* The calls explored *)

Solvers == {"bfs", "dfs", "a_star"}

\* the selectors a request may carry: the three known ones and one that is not
Selectors == Solvers \cup {"greedy"}

NoRequest ==
    [route |-> "none", solver |-> "none", M_total |-> 0, C_total |-> 0,
     M_left |-> 0, C_left |-> 0, M_right |-> 0, C_right |-> 0,
     boat_position |-> "left", num_of_couples |-> 0]

NoArgs ==
    [M_total |-> 0, C_total |-> 0, boat_capacity |-> 0, M_left |-> None,
     C_left |-> None, M_right |-> None, C_right |-> None, boat_position |-> "left"]

EmptyDict == [x \in {} |-> None]

\* a keyword the caller leaves out
Omitted == <<"omitted">>

\* def solve_missionaries_cannibals(M_total=3, C_total=3, boat_capacity=2, ...)
DefaultBoatCapacity == 2

NoCall ==
    [M_total |-> 0, C_total |-> 0, boat_capacity |-> Omitted, M_left |-> Omitted,
     C_left |-> Omitted, M_right |-> Omitted, C_right |-> Omitted,
     boat_position |-> Omitted]

\* solve_missionaries_cannibals(M_total=.., C_total=..[, boat_capacity=..][, boat_position=..])
DefaultCalls ==
    [M_total : 0..MaxTotal, C_total : 0..MaxTotal,
     boat_capacity : {PyInt(n) : n \in 0..MaxCap} \cup {Omitted},
     M_left : {Omitted}, C_left : {Omitted}, M_right : {Omitted}, C_right : {Omitted},
     boat_position : {Omitted, PyStr("right")}]

\* the same call with an initial distribution; nothing constrains the values
SuppliedCounts == {PyInt(n) : n \in 0..MaxInit}

SuppliedCalls ==
    [M_total : (-1)..MaxInit, C_total : (-1)..MaxInit,
     boat_capacity : {PyInt(n) : n \in 0..MaxInit},
     M_left : SuppliedCounts, C_left : SuppliedCounts,
     M_right : SuppliedCounts, C_right : SuppliedCounts,
     boat_position : {PyStr(b) : b \in BoatSides}]

\* a keyword parameter as the function body sees it: the signature's default
\* when the caller left it out
Param(given, default) == IF given = Omitted THEN default ELSE given

\* the parameters of solve_missionaries_cannibals for a call by keyword
BindKeywords(kw) ==
    [M_total |-> kw.M_total, C_total |-> kw.C_total,
     boat_capacity |-> Param(kw.boat_capacity, PyInt(DefaultBoatCapacity))[2],
     M_left |-> Param(kw.M_left, None), C_left |-> Param(kw.C_left, None),
     M_right |-> Param(kw.M_right, None), C_right |-> Param(kw.C_right, None),
     boat_position |-> Param(kw.boat_position, PyStr("left"))[2]]

Requests ==
    [route : {"/missionary-cannibal"}, solver : Selectors,
     M_total : 0..MaxReq, C_total : 0..MaxReq,
     M_left : 0..MaxReq, C_left : 0..MaxReq, M_right : 0..MaxReq, C_right : 0..MaxReq,
     boat_position : BoatSides, num_of_couples : {0}]
    \cup
    [route : {"/jealous-husband"}, solver : Selectors,
     M_total : {0}, C_total : {0}, M_left : {0}, C_left : {0}, M_right : {0},
     C_right : {0}, boat_position : {"left"}, num_of_couples : 0..MaxReq]

Init ==
    /\ \/ /\ pc = "solve" /\ request = NoRequest
          /\ call \in DefaultCalls \cup SuppliedCalls
          /\ args = BindKeywords(call)
       \/ pc = "http" /\ request \in Requests /\ call = NoCall /\ args = NoArgs
    /\ invoked = "none"
    /\ start_state = None
    /\ goal_state = None
    /\ open_heap = <<>>
    /\ g_cost = EmptyDict
    /\ parent = EmptyDict
    /\ visited = {}
    /\ num_generated = 0
    /\ path = None
    /\ response = None
    /\ outcome = "pending"

searchVars == <<start_state, goal_state, open_heap, g_cost, parent, visited,
                num_generated, path, response>>

----------------------------------------------------------------------------
(* app.py *)

\* the positional call solve_missionaries_cannibals(M_total, C_total, M_left,
\* C_left, M_right, C_right, boat_position) against the signature
\* (M_total, C_total, boat_capacity, M_left, C_left, M_right, C_right, boat_position)
BindPositional(req) ==
    [M_total |-> req.M_total, C_total |-> req.C_total,
     boat_capacity |-> req.M_left,
     M_left |-> PyInt(req.C_left), C_left |-> PyInt(req.M_right),
     M_right |-> PyInt(req.C_right), C_right |-> PyStr(req.boat_position),
     boat_position |-> "left"]

\* POST /missionary-cannibal
missionary_cannibal ==
    /\ pc = "http"
    /\ request.route = "/missionary-cannibal"
    /\ \/ /\ request.solver = "bfs"
          /\ invoked' = "missionary_cannibal_solver_bfs"
          /\ outcome' = "external" /\ pc' = "done" /\ UNCHANGED args
       \/ /\ request.solver = "dfs"
          /\ invoked' = "missionary_cannibal_solver_dfs"
          /\ outcome' = "external" /\ pc' = "done" /\ UNCHANGED args
       \/ /\ request.solver = "a_star"
          /\ invoked' = "missionary_cannibal_a_star"
          /\ args' = BindPositional(request)
          /\ pc' = "solve" /\ UNCHANGED outcome
       \/ /\ request.solver \notin Solvers
          /\ outcome' = "no_response" /\ pc' = "done" /\ UNCHANGED <<invoked, args>>
    /\ UNCHANGED <<call, request, searchVars>>

\* POST /jealous-husband
jealous_husband ==
    /\ pc = "http"
    /\ request.route = "/jealous-husband"
    /\ \/ /\ request.solver = "bfs"
          /\ invoked' = "jealous_husbands_bfs" /\ outcome' = "external"
       \/ /\ request.solver = "dfs"
          /\ invoked' = "jealous_husbands_dfs" /\ outcome' = "external"
       \/ /\ request.solver = "a_star"
          /\ invoked' = "jealous_husbands_a_star" /\ outcome' = "external"
       \/ /\ request.solver \notin Solvers
          /\ outcome' = "no_response" /\ UNCHANGED invoked
    /\ pc' = "done"
    /\ UNCHANGED <<call, request, args, searchVars>>

----------------------------------------------------------------------------
(* missionary_cannibal_a_star.py: solve_missionaries_cannibals, astar_search *)

\* a parameter with its None default applied
OrDefault(v, default) == IF v = None THEN default ELSE v[2]

\* the defaults swapped: everyone starts on the right bank
StartOf_right(a) ==
    <<OrDefault(a.M_left, 0), OrDefault(a.C_left, 0),
      OrDefault(a.M_right, a.M_total), OrDefault(a.C_right, a.C_total), a.boat_position>>

StartOf(a) ==
    <<OrDefault(a.M_left, a.M_total), OrDefault(a.C_left, a.C_total),
      OrDefault(a.M_right, 0), OrDefault(a.C_right, 0), a.boat_position>>

GoalOf(a) == <<0, 0, a.M_total, a.C_total, "right">>

\* every count of the start state is an int (C_right is a str when app.py binds it)
IntCounts == args.C_right[1] # "str"

\* solve_missionaries_cannibals up to the call of astar_search, and astar_search
\* up to its main loop
solve_missionaries_cannibals ==
    /\ pc = "solve"
    /\ IntCounts
    /\ LET start == StartOf(args)
       IN  /\ start_state' = start
           /\ goal_state' = GoalOf(args)
           /\ g_cost' = [s \in {start} |-> 0]
           /\ parent' = [s \in {start} |-> None]
           /\ open_heap' = heappush(<<>>,
                  <<heuristic(start, args.M_total, args.C_total), 0, start>>)
    /\ visited' = {}
    /\ num_generated' = 1
    /\ pc' = "search"
    /\ UNCHANGED <<call, request, invoked, args, path, response, outcome>>

\* the same call when C_right is a str: the start state is popped, compares
\* unequal to the goal, and the first candidate move raises TypeError at
\* C_right + C_move; with no possible move the loop ends and None is returned
solve_str_count ==
    /\ pc = "solve"
    /\ ~IntCounts
    /\ LET start == StartOf(args)
       IN  /\ start_state' = start
           /\ goal_state' = GoalOf(args)
           /\ g_cost' = [s \in {start} |-> 0]
           /\ parent' = [s \in {start} |-> None]
           /\ visited' = {start}
    /\ open_heap' = <<>>
    /\ num_generated' = 1
    /\ path' = None
    /\ \/ /\ get_possible_moves(args.boat_capacity) # <<>>
          /\ outcome' = "TypeError"
          /\ UNCHANGED response
       \/ /\ get_possible_moves(args.boat_capacity) = <<>>
          /\ outcome' = "returned"
          /\ response' = PyDict([output |-> None, number_of_states |-> 1])
    /\ pc' = "done"
    /\ UNCHANGED <<call, request, invoked, args>>

\* the entry the next heappop returns
Top == open_heap[HeapTop(open_heap)]

\* the skipped pop counted as one more generated state
PopSkip_counted ==
    /\ pc = "search"
    /\ open_heap # <<>>
    /\ open_heap[HeapTop(open_heap)][3] \in visited
    /\ open_heap' = HeapRest(open_heap)
    /\ num_generated' = num_generated + 1
    /\ UNCHANGED <<pc, call, request, invoked, args, start_state, goal_state, g_cost,
                   parent, visited, path, response, outcome>>

\* one iteration: the popped state was expanded before
PopSkip ==
    /\ pc = "search"
    /\ open_heap # <<>>
    /\ Top[3] \in visited
    /\ open_heap' = HeapRest(open_heap)
    /\ UNCHANGED <<pc, call, request, invoked, args, start_state, goal_state, g_cost,
                   parent, visited, num_generated, path, response, outcome>>

\* one iteration: the popped state is the goal; astar_search returns the path
\* and solve_missionaries_cannibals formats it
PopGoal ==
    /\ pc = "search"
    /\ open_heap # <<>>
    /\ Top[3] \notin visited
    /\ Top[3] = goal_state
    /\ open_heap' = HeapRest(open_heap)
    /\ visited' = visited \cup {Top[3]}
    /\ path' = PyList(PathTo(parent, Top[3], Cardinality(DOMAIN parent)))
    /\ response' = PyDict([output |-> PyDict(FormatPath(path'[2])),
                           number_of_states |-> num_generated])
    /\ outcome' = "returned"
    /\ pc' = "done"
    /\ UNCHANGED <<call, request, invoked, args, start_state, goal_state, g_cost, parent,
                   num_generated>>

\* one iteration: the popped state is expanded
PopExpand ==
    /\ pc = "search"
    /\ open_heap # <<>>
    /\ Top[3] \notin visited
    /\ Top[3] # goal_state
    /\ visited' = visited \cup {Top[3]}
    /\ LET acc == Explore(
                    [g_cost |-> g_cost, parent |-> parent,
                     open_heap |-> HeapRest(open_heap),
                     num_generated |-> num_generated],
                    get_next_states(Top[3], args.M_total, args.C_total,
                                    args.boat_capacity),
                    1, Top[3], Top[2])
       IN  /\ g_cost' = acc.g_cost
           /\ parent' = acc.parent
           /\ open_heap' = acc.open_heap
           /\ num_generated' = acc.num_generated
    /\ UNCHANGED <<pc, call, request, invoked, args, start_state, goal_state, path,
                   response, outcome>>

\* the heap is empty: astar_search returns (None, num_generated)
Exhausted ==
    /\ pc = "search"
    /\ open_heap = <<>>
    /\ path' = None
    /\ response' = PyDict([output |-> None, number_of_states |-> num_generated])
    /\ outcome' = "returned"
    /\ pc' = "done"
    /\ UNCHANGED <<call, request, invoked, args, start_state, goal_state, open_heap,
                   g_cost, parent, visited, num_generated>>

Next ==
    \/ missionary_cannibal
    \/ jealous_husband
    \/ solve_missionaries_cannibals
    \/ solve_str_count
    \/ PopSkip
    \/ PopGoal
    \/ PopExpand
    \/ Exhausted

Spec == Init /\ [][Next]_vars

----------------------------------------------------------------------------
(* Reference notions the properties are stated with *)

Range(seq) == {seq[i] : i \in 1..Len(seq)}

\* the number of moves of a shortest path from the states of `frontier` (all at
\* distance d from the start) to goal in the graph of get_next_states; -1 if none
RECURSIVE BfsDist(_, _, _, _)
BfsDist(frontier, seen, d, goal) ==
    IF goal \in frontier THEN d
    ELSE IF frontier = {} THEN -1
    ELSE LET nxt == UNION {Range(get_next_states(s, args.M_total, args.C_total,
                                                 args.boat_capacity)) : s \in frontier}
                    \ seen
         IN  BfsDist(nxt, seen \cup nxt, d + 1, goal)

ShortestMoves == BfsDist({start_state}, {start_state}, 0, goal_state)

\* a run of astar_search over int counts has returned
Returned == pc = "done" /\ outcome = "returned" /\ IntCounts

\* the call leaves the distribution to its defaults, boat on the left
DefaultStart ==
    /\ args.M_left = None /\ args.C_left = None
    /\ args.M_right = None /\ args.C_right = None
    /\ args.boat_position = "left"

Instance(M, C, cap) ==
    DefaultStart /\ args.M_total = M /\ args.C_total = C /\ args.boat_capacity = cap

\* the items of the output dictionary of the returned response
OutputItems == response[2].output[2]

StateRecord(s) ==
    [M_left |-> s[1], C_left |-> s[2], M_right |-> s[3], C_right |-> s[4],
     boat_position |-> s[5]]

----------------------------------------------------------------------------
(* C1: with boat capacity >= 2 (3 and above included) and the default       *)
(* all-left start, whenever the goal is reachable astar_search returns a    *)
(* path whose number of moves is the shortest-path length from start_state  *)
(* to goal_state in the graph of get_next_states.                           *)
C1_AstarPathIsShortest ==
    (Returned /\ DefaultStart /\ args.boat_capacity >= 2 /\ ShortestMoves >= 0)
        => (path # None /\ Len(path[2]) - 1 = ShortestMoves)

C1_Witness ==
    /\ Returned /\ DefaultStart /\ args.boat_capacity >= 3
    /\ path # None /\ Len(path[2]) >= 6
    /\ Len(path[2]) - 1 = ShortestMoves

(* C2 as stated: for M_total=3, C_total=3, boat_capacity=2 and the default  *)
(* start the solver returns a minimum-move path of exactly 11 states        *)
(* (indices 0..10) ending in (0,0,3,3,'right'), and the count is >= 11.     *)
C2_Original ==
    (Returned /\ Instance(3, 3, 2))
        => /\ response[2].output # None
           /\ Len(OutputItems) = 11
           /\ OutputItems[Len(OutputItems)] = <<"10", StateRecord(<<0, 0, 3, 3, "right">>)>>
           /\ Len(OutputItems) - 1 = ShortestMoves
           /\ response[2].number_of_states >= 11

(* C2 amended: the returned minimum-move path has exactly 12 states         *)
(* (indices 0..11, i.e. 11 moves) ending in (0,0,3,3,'right'), and the      *)
(* count is >= 11.                                                          *)
C2_TwelveStates ==
    (Returned /\ Instance(3, 3, 2))
        => /\ response[2].output # None
           /\ Len(OutputItems) = 12
           /\ OutputItems[Len(OutputItems)] = <<"11", StateRecord(<<0, 0, 3, 3, "right">>)>>
           /\ Len(OutputItems) - 1 = ShortestMoves
           /\ response[2].number_of_states >= 11

C2_Witness ==
    /\ Returned /\ Instance(3, 3, 2)
    /\ response[2].output # None
    /\ Len(OutputItems) = 12

(* C3 as stated: for M_total=2, C_total=2, boat_capacity=2 and the default  *)
(* start the solver returns a path of exactly 5 states (indices 0..4)       *)
(* ending in (0,0,2,2,'right').                                             *)
C3_Original ==
    (Returned /\ Instance(2, 2, 2))
        => /\ response[2].output # None
           /\ Len(OutputItems) = 5
           /\ OutputItems[Len(OutputItems)] = <<"4", StateRecord(<<0, 0, 2, 2, "right">>)>>

(* C3 amended: the returned path has exactly 6 states (indices 0..5)        *)
(* ending in (0,0,2,2,'right').                                             *)
C3_SixStates ==
    (Returned /\ Instance(2, 2, 2))
        => /\ response[2].output # None
           /\ Len(OutputItems) = 6
           /\ OutputItems[Len(OutputItems)] = <<"5", StateRecord(<<0, 0, 2, 2, "right">>)>>

C3_Witness ==
    /\ Returned /\ Instance(2, 2, 2)
    /\ response[2].output # None
    /\ Len(OutputItems) = 6

(* C4: for M_total=3, C_total=3, boat_capacity=1 and the default start no   *)
(* solution exists: the search empties the frontier and returns None with   *)
(* a positive generated-state count.                                        *)
C4_CapacityOneNoPath ==
    (Returned /\ Instance(3, 3, 1))
        => /\ ShortestMoves = -1
           /\ path = None
           /\ open_heap = <<>>
           /\ response[2].output = None
           /\ response[2].number_of_states > 0

C4_Witness ==
    /\ Returned /\ Instance(3, 3, 1)
    /\ path = None
    /\ response[2].number_of_states = num_generated
    /\ num_generated > 0

----------------------------------------------------------------------------
\* the legality rule of the data model, stated on a state and the totals
Legal(s, M_total, C_total) ==
    /\ \A k \in 1..4 : s[k] >= 0
    /\ s[1] <= M_total /\ s[3] <= M_total
    /\ s[2] <= C_total /\ s[4] <= C_total
    /\ (s[1] >= 1 => s[2] <= s[1])
    /\ (s[3] >= 1 => s[4] <= s[3])

\* both banks together hold the totals
SumsToTotals(s, M_total, C_total) ==
    s[1] + s[3] = M_total /\ s[2] + s[4] = C_total

\* malformed input of a direct call: a negative total, an initial distribution
\* that does not add up to the totals, or an illegal start state
Malformed(a) ==
    \/ a.M_total < 0 \/ a.C_total < 0
    \/ ~SumsToTotals(StartOf(a), a.M_total, a.C_total)
    \/ ~Legal(StartOf(a), a.M_total, a.C_total)

(* C5 as stated: malformed Missionary-Cannibal input is rejected with an    *)
(* InvalidParameters failure before any search step runs; it never reaches  *)
(* astar_search and never yields a path or a 'no path' result.              *)
C5_MalformedRejected ==
    (IntCounts /\ request = NoRequest /\ Malformed(args))
        => /\ pc # "search"
           /\ (pc = "done" => outcome = "InvalidParameters")
           /\ response = None

(* C6 as stated: a request whose strategy selector is none of "bfs", "dfs", *)
(* "a_star" ends in an explicit UnknownStrategy failure, and no solver is   *)
(* invoked.                                                                 *)
C6_UnknownStrategyReported ==
    (pc = "done" /\ request # NoRequest /\ request.solver \notin Solvers)
        => (outcome = "UnknownStrategy" /\ invoked = "none")

(* C7: when astar_search returns, the generated-state count is >= the       *)
(* number of states of the returned path when there is one, and >= 1 when   *)
(* there is none.                                                           *)
C7_GeneratedCoversPath ==
    (pc = "done" /\ outcome = "returned")
        => /\ (path # None => num_generated >= Len(path[2]))
           /\ (path = None => num_generated >= 1)

C7_Witness ==
    /\ pc = "done" /\ outcome = "returned"
    /\ path # None
    /\ Len(path[2]) >= 8
    /\ num_generated >= Len(path[2])

\* every state the next expansion would get from get_next_states
NextProduced ==
    Range(get_next_states(Top[3], args.M_total, args.C_total, args.boat_capacity))

(* C8: every state get_next_states produces, every state pushed on the      *)
(* frontier after the start state and every non-start state of a returned   *)
(* path has its four counts within 0..total, and on a bank with at least    *)
(* one missionary the cannibals do not outnumber the missionaries.          *)
C8_ProducedStatesLegal ==
    (IntCounts /\ pc \in {"search", "done"})
        => /\ (pc = "search" /\ open_heap # <<>>) =>
                  \A s \in NextProduced : Legal(s, args.M_total, args.C_total)
           /\ \A i \in 1..Len(open_heap) :
                  open_heap[i][3] # start_state
                      => Legal(open_heap[i][3], args.M_total, args.C_total)
           /\ path # None =>
                  \A i \in 1..Len(path[2]) :
                      path[2][i] # start_state
                          => Legal(path[2][i], args.M_total, args.C_total)

\* a produced state with no missionary and several cannibals on the left bank
\* waits on the frontier
C8_Witness ==
    /\ IntCounts /\ pc = "search"
    /\ \E i \in 1..Len(open_heap) :
          /\ open_heap[i][3] # start_state
          /\ open_heap[i][3][1] = 0
          /\ open_heap[i][3][2] >= 2
          /\ open_heap[i][3][3] >= 1

\* the states held by the frontier, the cost map, the parent map and the path
HeldStates ==
    {open_heap[i][3] : i \in 1..Len(open_heap)}
        \cup DOMAIN g_cost \cup DOMAIN parent
        \cup (IF path = None THEN {} ELSE Range(path[2]))

(* C9 as stated: every state in the frontier, the cost map, the parent map  *)
(* or the returned path has M_left + M_right = M_total and                  *)
(* C_left + C_right = C_total, for every start state the solver accepts.    *)
C9_HeldStatesSumToTotals ==
    (IntCounts /\ pc \in {"search", "done"})
        => \A s \in HeldStates : SumsToTotals(s, args.M_total, args.C_total)

(* C10: astar_search returns a path exactly when goal_state is reachable    *)
(* from start_state through get_next_states, and returns None exactly when  *)
(* the frontier empties without the goal having been popped.                *)
C10_PathIffReachable ==
    Returned
        => /\ (path # None) <=> (ShortestMoves >= 0)
           /\ (path = None) <=> (open_heap = <<>> /\ goal_state \notin visited)
           /\ path # None => path[2][Len(path[2])] = goal_state

\* a path returned from a caller-supplied start
C10_Witness ==
    /\ Returned /\ ~DefaultStart
    /\ path # None
    /\ Len(path[2]) >= 3
    /\ ShortestMoves >= 0

----------------------------------------------------------------------------
\* the number of values a count may take in a state get_next_states produces
Span(total) == IF total < 0 THEN 0 ELSE total + 1

\* the start state and every state is_valid_state can admit
UniverseSize ==
    1 + 2 * Span(args.M_total) * Span(args.M_total)
          * Span(args.C_total) * Span(args.C_total)

\* what is left of the run: each state still to expand may push one entry per
\* possible move, and every entry on the heap is still to pop
Rank ==
    Len(open_heap)
        + Len(get_possible_moves(args.boat_capacity))
            * (UniverseSize - Cardinality(visited))

(* C11: every run of astar_search terminates, for any totals, capacity      *)
(* >= 0 and start state.  Each iteration of the main loop strictly lowers   *)
(* Rank, a natural number, so the loop cannot run forever; with the heap    *)
(* empty the next step returns None; and a run that returned either popped  *)
(* the goal and has a path or emptied the frontier and has None.            *)
C11_SearchTerminates ==
    /\ [][(pc = "search" /\ open_heap # <<>>) => (Rank' < Rank /\ Rank' >= 0)]_vars
    /\ [][(pc = "search" /\ open_heap = <<>>)
            => (pc' = "done" /\ outcome' = "returned" /\ path' = None)]_vars
    /\ []((pc = "done" /\ outcome = "returned" /\ IntCounts)
            => \/ path # None /\ goal_state \in visited
               \/ path = None /\ open_heap = <<>>)

\* a long run that ended: many states expanded, some entries popped twice
C11_Witness ==
    /\ pc = "done" /\ outcome = "returned" /\ IntCounts
    /\ Cardinality(visited) >= 20
    /\ num_generated > Cardinality(DOMAIN g_cost)

----------------------------------------------------------------------------
\* the decimal numerals a reader of the report looks the indices up with
DecimalKeys ==
    <<"0", "1", "2", "3", "4", "5", "6", "7", "8", "9",
      "10", "11", "12", "13", "14", "15", "16", "17", "18", "19",
      "20", "21", "22", "23", "24", "25", "26", "27", "28", "29",
      "30", "31", "32", "33", "34", "35", "36", "37", "38", "39">>

HasKey(items, key) == \E k \in 1..Len(items) : items[k][1] = key

ItemValue(items, key) == items[CHOOSE k \in 1..Len(items) : items[k][1] = key][2]

\* the states read back from the report at indices 0..n-1, in order
ReadBack(items, n) ==
    [i \in 1..n |->
        LET v == ItemValue(items, DecimalKeys[i])
        IN  <<v.M_left, v.C_left, v.M_right, v.C_right, v.boat_position>>]

(* C12: formatting a found path and reading back the entries for indices    *)
(* 0..len-1 in order reproduces the state sequence: the report has exactly  *)
(* len(path) entries and entry i carries the five field values of path      *)
(* state i.                                                                 *)
C12_ReportRoundTrip ==
    (Returned /\ path # None)
        => /\ response[2].output # None
           /\ Len(OutputItems) = Len(path[2])
           /\ \A i \in 1..Len(path[2]) : HasKey(OutputItems, DecimalKeys[i])
           /\ ReadBack(OutputItems, Len(path[2])) = path[2]

\* a path long enough for two-digit indices
C12_Witness ==
    /\ Returned /\ path # None
    /\ Len(path[2]) >= 12
    /\ ReadBack(OutputItems, Len(path[2])) = path[2]

----------------------------------------------------------------------------
\* a direct call that supplies no initial distribution and no boat position
NothingSupplied ==
    /\ request = NoRequest
    /\ call.M_left = Omitted /\ call.C_left = Omitted
    /\ call.M_right = Omitted /\ call.C_right = Omitted
    /\ call.boat_position = Omitted

(* C13: when no initial distribution is supplied the search runs from       *)
(* (M_total, C_total, 0, 0, 'left') to (0, 0, M_total, C_total, 'right'),   *)
(* and when no capacity is supplied it runs with boat capacity 2.           *)
C13_Defaults ==
    (pc \in {"search", "done"} /\ request = NoRequest)
        => /\ NothingSupplied =>
                /\ start_state = <<call.M_total, call.C_total, 0, 0, "left">>
                /\ goal_state = <<0, 0, call.M_total, call.C_total, "right">>
                /\ \E i \in DOMAIN g_cost : i = start_state /\ g_cost[i] = 0
           /\ call.boat_capacity = Omitted =>
                /\ args.boat_capacity = 2
                /\ (pc = "search" /\ open_heap # <<>>) =>
                      NextProduced =
                        Range(get_next_states(Top[3], call.M_total, call.C_total, 2))

\* a search under way from the default start with the default capacity
C13_Witness ==
    /\ pc = "search" /\ NothingSupplied /\ call.boat_capacity = Omitted
    /\ call.M_total = 3 /\ call.C_total = 3
    /\ start_state = <<3, 3, 0, 0, "left">>
    /\ Cardinality(visited) >= 3

----------------------------------------------------------------------------
\* one boat move from s to t: the boat changes side and carries i missionaries
\* and j cannibals, 1 <= i + j <= capacity, from its bank to the other
BoatMove(s, t, capacity) ==
    /\ t[5] # s[5]
    /\ LET i == IF s[5] = "left" THEN s[1] - t[1] ELSE s[3] - t[3]
           j == IF s[5] = "left" THEN s[2] - t[2] ELSE s[4] - t[4]
       IN  /\ i >= 0 /\ j >= 0
           /\ 1 <= i + j /\ i + j <= capacity
           /\ s[1] + s[3] = t[1] + t[3]
           /\ s[2] + s[4] = t[2] + t[4]
           /\ (IF s[5] = "left" THEN t[3] - s[3] ELSE t[1] - s[1]) = i
           /\ (IF s[5] = "left" THEN t[4] - s[4] ELSE t[2] - s[2]) = j

(* C14: a returned path starts at start_state, ends at goal_state, and      *)
(* every consecutive pair (s, t) is one legal boat move: t is in            *)
(* get_next_states(s), the boat side flips and between 1 and boat_capacity  *)
(* people move from the boat's bank to the other bank.                      *)
C14_PathIsChainOfMoves ==
    (Returned /\ path # None)
        => /\ Len(path[2]) >= 1
           /\ path[2][1] = start_state
           /\ path[2][Len(path[2])] = goal_state
           /\ \A k \in 1..(Len(path[2]) - 1) :
                 /\ path[2][k + 1] \in Range(get_next_states(path[2][k], args.M_total,
                                                 args.C_total, args.boat_capacity))
                 /\ BoatMove(path[2][k], path[2][k + 1], args.boat_capacity)

\* a path with crossings in both directions, some carrying several people
C14_Witness ==
    /\ Returned /\ path # None
    /\ Len(path[2]) >= 4
    /\ args.boat_capacity >= 3
    /\ \E k \in 1..(Len(path[2]) - 1) :
          path[2][k][1] + path[2][k][2] - path[2][k + 1][1] - path[2][k + 1][2] >= 3

----------------------------------------------------------------------------
\* every placement of the people of s on the two banks, boat on either side
Placements(s) ==
    {<<a, b, s[1] + s[3] - a, s[2] + s[4] - b, side>> :
        a \in 0..(s[1] + s[3]), b \in 0..(s[2] + s[4]), side \in BoatSides}

\* the states one boat move away from s that pass is_valid_state
MoveSet(s) ==
    {t \in Placements(s) :
        /\ BoatMove(s, t, args.boat_capacity)
        /\ is_valid_state(t[1], t[2], t[3], t[4], args.M_total, args.C_total)}

NoRepeats(seq) == \A i, j \in 1..Len(seq) : seq[i] = seq[j] => i = j

\* get_next_states of the state about to be popped
NextOfTop ==
    get_next_states(Top[3], args.M_total, args.C_total, args.boat_capacity)

(* C15: for every state s and capacity c, get_next_states(s) is exactly the *)
(* set of states reached by moving i missionaries and j cannibals,          *)
(* 1 <= i + j <= c, from the boat's bank to the other bank with the boat    *)
(* side flipped, that pass is_valid_state; the list holds no state twice.   *)
C15_NextStatesExact ==
    (pc = "search" /\ open_heap # <<>>)
        => /\ Range(NextOfTop) = MoveSet(Top[3])
           /\ NoRepeats(NextOfTop)

\* a state with several legal moves, from the right bank, at capacity >= 3
C15_Witness ==
    /\ pc = "search" /\ open_heap # <<>>
    /\ args.boat_capacity >= 3
    /\ Top[3][5] = "right"
    /\ Len(NextOfTop) >= 4
    /\ Range(NextOfTop) = MoveSet(Top[3])

----------------------------------------------------------------------------
\* the least number of crossings from s to the goal; -1 if there is none
CrossingsFrom(s) == BfsDist({s}, {s}, 0, goal_state)

\* the state about to be popped is legal and the goal can be reached from it
TopCanReachGoal ==
    /\ pc = "search" /\ open_heap # <<>>
    /\ Legal(Top[3], args.M_total, args.C_total)
    /\ CrossingsFrom(Top[3]) >= 0

(* C16 as stated: for every boat capacity >= 2 the heuristic                *)
(* h(s) = ceil((M_left + C_left)/2) never overestimates: for every legal    *)
(* state s from which the goal is reachable, h(s) <= the least number of    *)
(* crossings from s to the goal.                                            *)
C16_Original ==
    (TopCanReachGoal /\ args.boat_capacity >= 2)
        => heuristic(Top[3], args.M_total, args.C_total) <= CrossingsFrom(Top[3])

(* C16 amended: for boat capacity 2 the heuristic never overestimates: for  *)
(* every legal state s from which the goal is reachable, h(s) <= the least  *)
(* number of crossings from s to the goal.                                  *)
C16_AdmissibleAtCapacityTwo ==
    (TopCanReachGoal /\ args.boat_capacity = 2)
        => heuristic(Top[3], args.M_total, args.C_total) <= CrossingsFrom(Top[3])

\* a state several crossings from the goal at capacity 2
C16_Witness ==
    /\ TopCanReachGoal /\ args.boat_capacity = 2
    /\ heuristic(Top[3], args.M_total, args.C_total) >= 3
    /\ heuristic(Top[3], args.M_total, args.C_total) <= CrossingsFrom(Top[3])

----------------------------------------------------------------------------
\* Python's order of two state tuples: decided at the first field that differs
FirstDiff(a, b) == CHOOSE k \in 1..5 : a[k] # b[k] /\ \A m \in 1..(k - 1) : a[m] = b[m]

TupleBefore(a, b) ==
    /\ a # b
    /\ LET k == FirstDiff(a, b)
       IN  IF k = 5 THEN a[5] = "left" /\ b[5] = "right" ELSE a[k] < b[k]

\* open_heap lists the entries in push order: positions before the popped one
\* were pushed earlier
PoppedAt == HeapTop(open_heap)

(* C17 as stated: among frontier entries with equal f, astar_search pops    *)
(* them in the order they were pushed; the pop order among equal-f entries  *)
(* does not depend on their g values or on the order of the state tuples.   *)
C17_Original ==
    (pc = "search" /\ open_heap # <<>>)
        => \A j \in 1..(PoppedAt - 1) : open_heap[j][1] # open_heap[PoppedAt][1]

(* C17 amended: the popped entry has the least f; among entries with equal  *)
(* f the one with the smaller g is popped first, and among equal f and g    *)
(* the one whose state tuple is smaller in Python's tuple order; the order  *)
(* of pushing plays no part.                                                *)
C17_TiesByGThenState ==
    (pc = "search" /\ open_heap # <<>>)
        => \A j \in 1..Len(open_heap) :
              LET e == open_heap[j]
                  top == open_heap[PoppedAt]
              IN  /\ top[1] <= e[1]
                  /\ (e[1] = top[1]) => top[2] <= e[2]
                  /\ (e[1] = top[1] /\ e[2] = top[2] /\ j # PoppedAt)
                        => TupleBefore(top[3], e[3])

\* an entry pushed earlier with the same f stays behind: the popped one has a
\* smaller g, or the same g and a smaller state tuple
C17_Witness ==
    /\ pc = "search" /\ open_heap # <<>>
    /\ \E j \in 1..(PoppedAt - 1) :
          /\ open_heap[j][1] = open_heap[PoppedAt][1]
          /\ open_heap[j][2] = open_heap[PoppedAt][2]
          /\ TupleBefore(open_heap[PoppedAt][3], open_heap[j][3])
    /\ \E j \in 1..(PoppedAt - 1) :
          /\ open_heap[j][1] = open_heap[PoppedAt][1]
          /\ open_heap[j][2] > open_heap[PoppedAt][2]

----------------------------------------------------------------------------
\* the next pop returns a state that was expanded before
RepopsVisited == pc = "search" /\ open_heap # <<>> /\ Top[3] \in visited

\* the next pop returns a state not expanded yet
PopsFresh == pc = "search" /\ open_heap # <<>> /\ Top[3] \notin visited

(* C18: each state is expanded at most once.  A state joins the visited set *)
(* when it is first popped and never leaves it; a later pop of the same     *)
(* state only removes the entry: no successor is pushed, and the cost map,  *)
(* the parent map and the generated count stay as they were.                *)
C18_ExpandedAtMostOnce ==
    /\ [][pc = "search" => visited \subseteq visited']_vars
    /\ [][PopsFresh => visited' = visited \cup {Top[3]}]_vars
    /\ [][RepopsVisited =>
            /\ UNCHANGED <<g_cost, parent, num_generated, visited>>
            /\ Len(open_heap') <= Len(open_heap)
            /\ \A i \in 1..Len(open_heap') : \E j \in 1..Len(open_heap) :
                  open_heap'[i] = open_heap[j]]_vars
    /\ [][(pc = "search" /\ (g_cost' # g_cost \/ parent' # parent
                              \/ num_generated' # num_generated))
            => PopsFresh]_vars

\* some pop has been skipped: more entries were popped than states expanded
C18_Witness ==
    /\ pc = "search"
    /\ num_generated - Len(open_heap) > Cardinality(visited)
    /\ \A i \in 1..Len(open_heap) : open_heap[i][3] \in DOMAIN g_cost

----------------------------------------------------------------------------
\* a /missionary-cannibal request with solver "a_star" has reached the solver
AstarRequestBound ==
    /\ request.route = "/missionary-cannibal"
    /\ request.solver = "a_star"
    /\ pc \in {"solve", "search", "done"}

(* C19 as stated: for a /missionary-cannibal request with solver "a_star"   *)
(* the search runs with start state (M_left, C_left, M_right, C_right,      *)
(* boat_position) and totals (M_total, C_total) as given in the request:    *)
(* each request field is bound to the solver parameter of the same meaning, *)
(* and no request count is used as the boat capacity.                       *)
C19_RequestBoundByMeaning ==
    AstarRequestBound
        => /\ args.M_total = request.M_total
           /\ args.C_total = request.C_total
           /\ args.M_left = PyInt(request.M_left)
           /\ args.C_left = PyInt(request.C_left)
           /\ args.M_right = PyInt(request.M_right)
           /\ args.C_right = PyInt(request.C_right)
           /\ args.boat_position = request.boat_position
           /\ args.boat_capacity = DefaultBoatCapacity
           /\ outcome # "TypeError"

----------------------------------------------------------------------------
\* every recorded parent is strictly cheaper than its child
ParentsCheaper(costs, par) ==
    /\ DOMAIN par = DOMAIN costs
    /\ \A x \in DOMAIN par :
          par[x] # None => /\ par[x] \in DOMAIN costs
                           /\ costs[par[x]] < costs[x]

\* the state at which the walk x, par[x], par[par[x]], ... meets a None
\* parent, or None when it has not met one within fuel steps
RECURSIVE ChainRoot(_, _, _)
ChainRoot(par, x, fuel) ==
    IF par[x] = None THEN x
    ELSE IF fuel = 0 THEN None
    ELSE ChainRoot(par, par[x], fuel - 1)

\* every parent chain is acyclic and ends at start_state
ChainsEndAtStart(par) ==
    \A x \in DOMAIN par : ChainRoot(par, x, Cardinality(DOMAIN par)) = start_state

\* the maps after the first k neighbours of the state about to be expanded
MapsAfter(k) ==
    Explore([g_cost |-> g_cost, parent |-> parent,
             open_heap |-> HeapRest(open_heap), num_generated |-> num_generated],
            SubSeq(NextOfTop, 1, k), 1, Top[3], Top[2])

(* C20: at every point of a run of astar_search (between iterations and     *)
(* after each neighbour of the for-loop) every state with a non-None parent *)
(* costs strictly more than its parent; every parent chain is acyclic and   *)
(* ends at start_state; and a returned path is the whole chain from         *)
(* start_state, no longer than the parent map, with no state twice.         *)
C20_ParentsStrictlyCheaper ==
    /\ (pc \in {"search", "done"} /\ IntCounts /\ outcome # "TypeError")
          => /\ ParentsCheaper(g_cost, parent)
             /\ ChainsEndAtStart(parent)
    /\ (pc = "search" /\ open_heap # <<>> /\ Top[3] \notin visited
          /\ Top[3] # goal_state)
          => \A k \in 1..Len(NextOfTop) :
                /\ ParentsCheaper(MapsAfter(k).g_cost, MapsAfter(k).parent)
                /\ ChainsEndAtStart(MapsAfter(k).parent)
    /\ (Returned /\ path # None)
          => /\ path[2][1] = start_state
             /\ Len(path[2]) <= Cardinality(DOMAIN parent)
             /\ NoRepeats(path[2])

\* a path of at least two crossings is returned, and some state was reached
\* again from an expanded state at a higher cost and kept its cheaper parent
C20_Witness ==
    /\ Returned
    /\ path # None
    /\ Len(path[2]) >= 3
    /\ \E x \in DOMAIN parent :
          /\ parent[x] # None
          /\ \E y \in visited : /\ y # parent[x]
                                /\ x \in Range(get_next_states(y, args.M_total,
                                                  args.C_total, args.boat_capacity))
                                /\ g_cost[y] + 1 > g_cost[x]

====
